---- MODULE Spec2Model ----
(***************************************************************************)
(* Model of backups/usb-queue-monitor.py: the reservoir sampler, the       *)
(* nearest-rank percentile, the bar encoding and the sampling loop of      *)
(* main().                                                                 *)
(*                                                                         *)
(* Four groups of variables, one per part of the program:                  *)
(*   smp, stream, ret, retAtReturn, dist   one ReservoirSampler object     *)
(*   pdata, ppct, presult                  one call of calc_percentile     *)
(*   bcurrent, bp90, bwidth, bresult       one call of make_bar            *)
(*   cfg, samplers, pc, ... , sigIgnored   one run of main()               *)
(* Each specification drives one group and leaves the others at rest.      *)
(***************************************************************************)
EXTENDS Integers, Sequences, FiniteSets

VARIABLES
    smp,          \* the ReservoirSampler object: [size, reservoir, count]
    stream,       \* the values offered to smp.add so far, in order
    ret,          \* the list reference a caller got from smp.get_samples()
    retAtReturn,  \* the contents that list had when it was returned
    dist,         \* reservoir contents -> number of draw sequences giving it
    pdata, ppct, presult,                \* calc_percentile: arguments, result
    bcurrent, bp90, bwidth, bresult,     \* make_bar: arguments, result
    cfg,          \* the module constants DEVICES, SAMPLE_INTERVAL, RESERVOIR_SIZE
    samplers,     \* the module-level dict: device -> ReservoirSampler
    pc,           \* the line main() is at, or how the process ended
    forIdx,       \* position of `dev` in DEVICES in the running for loop (1-based)
    mainCurrent,  \* main's local `current`
    rendered,     \* the device rows printed in this tick
    footer,       \* the "Samples:" line printed in this tick
    stoppedMsg,   \* "Stopped." has been printed
    exitStatus,   \* "running", "success" or "failure"
    ticks,        \* iterations of `while True` started
    got,          \* device -> values get_inflight returned at line 94 this tick
    fed,          \* device -> values passed to add at line 95 this tick
    lastRead,     \* the latest get_inflight call: its device and what happened
    interrupted,  \* a SIGINT has been delivered to the process
    sigIgnored    \* a SIGINT arrived while os.system had SIGINT ignored

samplerVars == <<smp, stream, ret, retAtReturn, dist>>
pctVars     == <<pdata, ppct, presult>>
barVars     == <<bcurrent, bp90, bwidth, bresult>>
mainVars    == <<cfg, samplers, pc, forIdx, mainCurrent, rendered, footer, stoppedMsg,
                 exitStatus, ticks, got, fed, lastRead, interrupted, sigIgnored>>

Min(a, b) == IF a < b THEN a ELSE b
Max(a, b) == IF a > b THEN a ELSE b

RECURSIVE SumOver(_, _)
SumOver(f, S) ==
    IF S = {} THEN 0
    ELSE LET x == CHOOSE y \in S : TRUE IN f[x] + SumOver(f, S \ {x})

Elems(s) == { s[k] : k \in 1..Len(s) }

(***************************************************************************)
(* Bounds of the sampler specifications.                                   *)
(***************************************************************************)
MaxCapacity == 2
MaxAdds     == 4
MaxValue    == 1
UMaxCapacity == 4
UMaxAdds     == 6

Values == 0..MaxValue

(***************************************************************************)
(* class ReservoirSampler                                                  *)
(***************************************************************************)
ReservoirSampler(size) == [size |-> size, reservoir |-> <<>>, count |-> 0]

\* random.randint(a, b): any integer of a..b
randint(a, b) == a..b

\* line 31: j = random.randint(0, self.count - 1), count already incremented
draw_j_upto_count(count) == randint(0, count)
draw_j(count) == randint(0, count - 1)

\* The draws add() can make on `self`: none while the reservoir is not full
\* (one outcome, j unused), else every j of draw_j.
Draws(self) ==
    IF Len(self.reservoir) < self.size THEN {0} ELSE draw_j(self.count + 1)

add_full_at_le(self, value, j) ==
    LET counted == [self EXCEPT !.count = @ + 1] IN
    IF Len(counted.reservoir) <= counted.size
    THEN [counted EXCEPT !.reservoir = Append(@, value)]
    ELSE IF j < counted.size
         THEN [counted EXCEPT !.reservoir[j + 1] = value]
         ELSE counted
add_prepends(self, value, j) ==
    LET counted == [self EXCEPT !.count = @ + 1] IN
    IF Len(counted.reservoir) < counted.size
    THEN [counted EXCEPT !.reservoir = <<value>> \o @]
    ELSE IF j < counted.size
         THEN [counted EXCEPT !.reservoir[j + 1] = value]
         ELSE counted
\* add(self, value) with the drawn index j
add(self, value, j) ==
    LET counted == [self EXCEPT !.count = @ + 1] IN
    IF Len(counted.reservoir) < counted.size
    THEN [counted EXCEPT !.reservoir = Append(@, value)]
    ELSE IF j < counted.size
         THEN [counted EXCEPT !.reservoir[j + 1] = value]
         ELSE counted

\* A list reference: the sampler's own list object (self.reservoir, which add
\* mutates in place and never rebinds), a separate list, or None.
NoList == [obj |-> "None", items |-> <<>>]
\* get_samples: return self.reservoir -- the object itself
get_samples(self) == [obj |-> "self.reservoir", items |-> <<>>]
\* What a holder of the reference reads through it now
Contents(ref, self) ==
    IF ref.obj = "self.reservoir" THEN self.reservoir ELSE ref.items

get_count(self) == self.count

(***************************************************************************)
(* SpecSampler: a fresh sampler of any capacity 0..MaxCapacity, fed any    *)
(* values with any draws, and read through get_samples at any time.        *)
(***************************************************************************)
PctIdle == pdata = <<>> /\ ppct = 0 /\ presult = [done |-> FALSE, value |-> 0]
BarIdle == bcurrent = 0 /\ bp90 = 0 /\ bwidth = 0
           /\ bresult = [done |-> FALSE, bar |-> <<>>]
NoRead == [dev |-> "", exc |-> "none", failed |-> FALSE]
NoFooter == [printed |-> FALSE, sample_count |-> 0, reservoir_size |-> 0]
MainIdle == /\ cfg = [DEVICES |-> <<>>, SAMPLE_INTERVAL |-> 0, RESERVOIR_SIZE |-> 0]
            /\ samplers = <<>> /\ pc = "not_started" /\ forIdx = 0 /\ mainCurrent = 0
            /\ rendered = <<>> /\ footer = NoFooter /\ stoppedMsg = FALSE
            /\ exitStatus = "running" /\ ticks = 0 /\ got = <<>> /\ fed = <<>>
            /\ lastRead = NoRead /\ interrupted = FALSE /\ sigIgnored = FALSE
SamplerIdle == smp = ReservoirSampler(0) /\ stream = <<>> /\ ret = NoList
               /\ retAtReturn = <<>> /\ dist = <<>>

InitSampler ==
    /\ \E size \in 0..MaxCapacity : smp = ReservoirSampler(size)
    /\ stream = <<>>
    /\ ret = NoList
    /\ retAtReturn = <<>>
    /\ dist = <<>>
    /\ PctIdle /\ BarIdle /\ MainIdle

SAdd ==
    /\ smp.count < MaxAdds
    /\ \E value \in Values, j \in Draws(smp) :
          /\ smp' = add(smp, value, j)
          /\ stream' = Append(stream, value)
    /\ UNCHANGED <<ret, retAtReturn, dist, pctVars, barVars, mainVars>>

SGetSamples ==
    /\ ret' = get_samples(smp)
    /\ retAtReturn' = Contents(get_samples(smp), smp)
    /\ UNCHANGED <<smp, stream, dist, pctVars, barVars, mainVars>>

NextSampler == SAdd \/ SGetSamples

vars == <<samplerVars, pctVars, barVars, mainVars>>

SpecSampler == InitSampler /\ [][NextSampler]_vars

\* C1: after N adds on a fresh sampler of capacity C >= 0, get_count() = N and
\* len(get_samples()) = min(N, C), whatever indices were drawn.
C1_CountAndLength ==
    /\ get_count(smp) = Len(stream)
    /\ Len(Contents(get_samples(smp), smp)) = Min(Len(stream), smp.size)
    /\ Len(Contents(get_samples(smp), smp)) <= smp.size

C1_Witness ==
    /\ smp.size >= 1
    /\ smp.count > smp.size
    /\ smp.reservoir # SubSeq(stream, 1, smp.size)

\* C9: while N <= C, get_samples() is exactly the stream offered, in order.
C9_TrivialRegime ==
    Len(stream) <= smp.size => Contents(get_samples(smp), smp) = stream

C9_Witness ==
    /\ Len(stream) = 2
    /\ smp.size = 2
    /\ stream[1] # stream[2]

\* C3: a list obtained from get_samples() keeps the contents it had when it
\* was returned, whatever add() calls follow.
C3_DefensiveCopy ==
    ret.obj # "None" => Contents(ret, smp) = retAtReturn

(***************************************************************************)
(* SpecUniform: the sampler fed the ordinals 1, 2, 3, ... of its           *)
(* observations.  smp follows one sequence of draws; dist follows all of   *)
(* them at once: dist[r] is the number of equally likely sequences of      *)
(* draws after which the reservoir holds r.                                *)
(***************************************************************************)
\* One add() of the next ordinal applied to every reservoir of d under every
\* draw it can make.
Spread(d, self) ==
    LET at(r)     == [self EXCEPT !.reservoir = r]
        outcomes  == UNION { { <<r, j>> : j \in Draws(at(r)) } : r \in DOMAIN d }
        after(o)  == add(at(o[1]), self.count + 1, o[2]).reservoir
        weight    == [o \in outcomes |-> d[o[1]]]
    IN  [r2 \in { after(o) : o \in outcomes } |->
            SumOver(weight, { o \in outcomes : after(o) = r2 })]

InitUniform ==
    /\ \E size \in 0..UMaxCapacity : smp = ReservoirSampler(size)
    /\ stream = <<>>
    /\ ret = NoList
    /\ retAtReturn = <<>>
    /\ dist = [r \in {<<>>} |-> 1]
    /\ PctIdle /\ BarIdle /\ MainIdle

UAdd ==
    /\ smp.count < UMaxAdds
    /\ \E j \in Draws(smp) :
          /\ smp' = add(smp, smp.count + 1, j)
          /\ stream' = Append(stream, smp.count + 1)
    /\ dist' = Spread(dist, smp)
    /\ UNCHANGED <<ret, retAtReturn, pctVars, barVars, mainVars>>

NextUniform == UAdd

SpecUniform == InitUniform /\ [][NextUniform]_vars

\* Number of draw sequences after which observation i is in the reservoir
Surviving(i) == SumOver(dist, { r \in DOMAIN dist : i \in Elems(r) })
AllDraws == SumOver(dist, DOMAIN dist)

\* C2: after N > capacity observations, every observation i of 1..N is in the
\* reservoir in the fraction capacity / N of all equally likely draw sequences.
C2_UniformSurvival ==
    /\ smp.reservoir \in DOMAIN dist
    /\ smp.count > smp.size =>
          \A i \in 1..smp.count :
              smp.count * Surviving(i) = smp.size * AllDraws

C2_Witness ==
    /\ smp.size = 2
    /\ smp.count = 4
    /\ smp.reservoir = <<4, 3>>
    /\ AllDraws = 12
    /\ Surviving(1) = 6

(***************************************************************************)
(* calc_percentile                                                         *)
(***************************************************************************)
MaxLen == 3
MaxSample == 2
Percentiles == 0..100

RECURSIVE insort(_, _)
insort(x, s) ==
    IF s = <<>> THEN <<x>>
    ELSE IF x <= Head(s) THEN <<x>> \o s
         ELSE <<Head(s)>> \o insort(x, Tail(s))

\* sorted(data): ascending
RECURSIVE sorted(_)
sorted(data) == IF data = <<>> THEN <<>> ELSE insort(Head(data), sorted(Tail(data)))

\* int(x / d) for d > 0: truncation toward zero
int_div(x, d) == IF x >= 0 THEN x \div d ELSE -((-x) \div d)

calc_percentile_unsorted(data, pct) ==
    IF Len(data) = 0 THEN 0
    ELSE LET sorted_data == data
             idx0 == int_div(Len(sorted_data) * pct, 100)
             idx  == Max(0, Min(idx0, Len(sorted_data) - 1))
         IN  sorted_data[idx + 1]
calc_percentile(data, pct) ==
    IF Len(data) = 0 THEN 0
    ELSE LET sorted_data == sorted(data)
             idx0 == int_div(Len(sorted_data) * pct, 100)
             idx  == Max(0, Min(idx0, Len(sorted_data) - 1))
         IN  sorted_data[idx + 1]

RECURSIVE SeqsUpTo(_, _)
SeqsUpTo(S, n) ==
    IF n = 0 THEN {<<>>}
    ELSE LET shorter == SeqsUpTo(S, n - 1)
         IN  shorter \cup { Append(s, x) : s \in { t \in shorter : Len(t) = n - 1 }, x \in S }

InitPct ==
    /\ pdata \in SeqsUpTo(0..MaxSample, MaxLen)
    /\ ppct \in Percentiles
    /\ presult = [done |-> FALSE, value |-> 0]
    /\ SamplerIdle /\ BarIdle /\ MainIdle

PCalc ==
    /\ ~presult.done
    /\ presult' = [done |-> TRUE, value |-> calc_percentile(pdata, ppct)]
    /\ UNCHANGED <<pdata, ppct, samplerVars, barVars, mainVars>>

NextPct == PCalc

SpecPct == InitPct /\ [][NextPct]_vars

\* The permutations of a sequence
Perms(s) ==
    { [k \in 1..Len(s) |-> s[f[k]]] :
        f \in { g \in [1..Len(s) -> 1..Len(s)] : \A a, b \in 1..Len(s) : a # b => g[a] # g[b] } }

Below(s, v)   == Cardinality({ k \in 1..Len(s) : s[k] < v })
AtMost(s, v)  == Cardinality({ k \in 1..Len(s) : s[k] <= v })
RankIdx(n, p) == Min(Max((n * p) \div 100, 0), n - 1)

\* C4: calc_percentile is the nearest-rank estimator: 0 for empty data; else
\* the element of rank min(max(floor(len*pct/100),0),len-1) (0-based) in
\* ascending order -- an element of data, the same for every permutation of
\* data, and the maximum for pct = 100.
C4_NearestRank ==
    presult.done =>
        /\ pdata = <<>> => presult.value = 0
        /\ pdata # <<>> =>
              /\ presult.value \in Elems(pdata)
              /\ Below(pdata, presult.value) <= RankIdx(Len(pdata), ppct)
              /\ RankIdx(Len(pdata), ppct) < AtMost(pdata, presult.value)
              /\ \A q \in Perms(pdata) : calc_percentile(q, ppct) = presult.value
              /\ ppct = 100 => \A k \in 1..Len(pdata) : pdata[k] <= presult.value

C4_Witness ==
    /\ presult.done
    /\ pdata = <<2, 0, 2>>
    /\ ppct = 50
    /\ presult.value = 2

(***************************************************************************)
(* make_bar                                                                *)
(***************************************************************************)
MaxWidth == 4
BarArgs == (0 - 1)..(MaxWidth + 2)

\* the loop body for position i: one character appended
bar_char_lt(i, current, p90) ==
    IF i < current THEN "filled" ELSE IF i <= p90 THEN "shadow" ELSE "empty"
bar_char(i, current, p90) ==
    IF i <= current THEN "filled" ELSE IF i <= p90 THEN "shadow" ELSE "empty"

\* for i in range(1, width + 1): bar += ...
RECURSIVE bar_loop(_, _, _, _, _)
bar_loop(i, bar, current, p90, width) ==
    IF i >= width + 1 THEN bar
    ELSE bar_loop(i + 1, Append(bar, bar_char(i, current, p90)), current, p90, width)

make_bar(current, p90, width) == bar_loop(1, <<>>, current, p90, width)

InitBar ==
    /\ bcurrent \in BarArgs
    /\ bp90 \in BarArgs
    /\ bwidth \in 0..MaxWidth
    /\ bresult = [done |-> FALSE, bar |-> <<>>]
    /\ SamplerIdle /\ PctIdle /\ MainIdle

BMakeBar ==
    /\ ~bresult.done
    /\ bresult' = [done |-> TRUE, bar |-> make_bar(bcurrent, bp90, bwidth)]
    /\ UNCHANGED <<bcurrent, bp90, bwidth, samplerVars, pctVars, mainVars>>

NextBar == BMakeBar

SpecBar == InitBar /\ [][NextBar]_vars

\* C8: the bar has exactly width positions for any current and p90; and for
\* 0 <= current <= p90 <= width, positions 1..current are filled,
\* current+1..p90 shadow and p90+1..width empty.
C8_BarEncoding ==
    bresult.done =>
        /\ Len(bresult.bar) = bwidth
        /\ (0 <= bcurrent /\ bcurrent <= bp90 /\ bp90 <= bwidth) =>
              /\ \A i \in 1..bcurrent : bresult.bar[i] = "filled"
              /\ \A i \in (bcurrent + 1)..bp90 : bresult.bar[i] = "shadow"
              /\ \A i \in (bp90 + 1)..bwidth : bresult.bar[i] = "empty"
              /\ Cardinality({ i \in 1..bwidth : bresult.bar[i] = "filled" }) = bcurrent
              /\ Cardinality({ i \in 1..bwidth : bresult.bar[i] = "shadow" }) = bp90 - bcurrent
              /\ Cardinality({ i \in 1..bwidth : bresult.bar[i] = "empty" }) = bwidth - bp90

C8_Witness ==
    /\ bresult.done
    /\ bcurrent = 1 /\ bp90 = 3 /\ bwidth = 4
    /\ bresult.bar = <<"filled", "shadow", "shadow", "empty">>

(***************************************************************************)
(* Module constants (lines 13-16) and the samplers dict (line 42).         *)
(* DEVICES is the first two of the five shipped names, RESERVOIR_SIZE a    *)
(* small capacity in place of 10000, SAMPLE_INTERVAL in tenths of a        *)
(* second.                                                                 *)
(***************************************************************************)
DEVICES == <<"sdc", "sdd">>
SAMPLE_INTERVAL == 1
RESERVOIR_SIZE == 1
MAX_QUEUE == 30
MaxTicks == 2

ShippedConfig ==
    [DEVICES |-> DEVICES, SAMPLE_INTERVAL |-> SAMPLE_INTERVAL,
     RESERVOIR_SIZE |-> RESERVOIR_SIZE]

\* Every way the three constants can be set, valid or not
Configs ==
    [DEVICES : {<<>>, DEVICES},
     SAMPLE_INTERVAL : {0 - 1, 0, SAMPLE_INTERVAL},
     RESERVOIR_SIZE : {0 - 1, 0, RESERVOIR_SIZE}]

ValidConfig(c) ==
    Len(c.DEVICES) > 0 /\ c.RESERVOIR_SIZE > 0 /\ c.SAMPLE_INTERVAL > 0

\* samplers = {dev: ReservoirSampler(RESERVOIR_SIZE) for dev in DEVICES}
make_samplers(c) == [dev \in Elems(c.DEVICES) |-> ReservoirSampler(c.RESERVOIR_SIZE)]

(***************************************************************************)
(* get_inflight.  What /sys/block/<device>/inflight is at one read: absent,*)
(* present but not openable, or text; the text is the list of tokens       *)
(* read().strip().split() gives, a token being a number or not.            *)
(***************************************************************************)
Tokens == { [num |-> TRUE, val |-> 0], [num |-> TRUE, val |-> 1],
            [num |-> FALSE, val |-> 0] }
Files ==
    { [kind |-> "missing", parts |-> <<>>], [kind |-> "unreadable", parts |-> <<>>] }
    \cup { [kind |-> "text", parts |-> ps] : ps \in SeqsUpTo(Tokens, 3) }

Returned(v) == [exc |-> "none", value |-> v]
Raised(e)   == [exc |-> e, value |-> 0]

\* lines 47-49, the body of the try
inflight_body(file) ==
    IF file.kind = "missing" THEN Raised("FileNotFoundError")
    ELSE IF file.kind = "unreadable" THEN Raised("PermissionError")
    ELSE LET parts == file.parts IN
         IF Len(parts) < 1 THEN Raised("IndexError")
         ELSE IF ~parts[1].num THEN Raised("ValueError")
         ELSE IF Len(parts) < 2 THEN Raised("IndexError")
         ELSE IF ~parts[2].num THEN Raised("ValueError")
         ELSE Returned(parts[1].val + parts[2].val)

\* line 50: except (FileNotFoundError, IndexError, ValueError)
Caught == {"FileNotFoundError", "IndexError", "ValueError"}

get_inflight(file) ==
    LET r == inflight_body(file) IN
    IF r.exc \in Caught THEN Returned(0) ELSE r

\* The read did not yield the sum of two numbers
ReadFailed(file) == inflight_body(file).exc # "none"

(***************************************************************************)
(* main()                                                                  *)
(***************************************************************************)
InLoopBody == {"collect_read", "collect_add", "clear", "header", "row", "footer", "sleep"}
Ended == {"STOPPED", "CRASHED", "KILLED"}

InitMainWith(c) ==
    /\ cfg = c
    /\ samplers = make_samplers(c)
    /\ pc = "print_banner"
    /\ forIdx = 0
    /\ mainCurrent = 0
    /\ rendered = <<>>
    /\ footer = NoFooter
    /\ stoppedMsg = FALSE
    /\ exitStatus = "running"
    /\ ticks = 0
    /\ got = [dev \in Elems(c.DEVICES) |-> <<>>]
    /\ fed = [dev \in Elems(c.DEVICES) |-> <<>>]
    /\ lastRead = NoRead
    /\ interrupted = FALSE
    /\ sigIgnored = FALSE
    /\ SamplerIdle /\ PctIdle /\ BarIdle

Init == InitMainWith(ShippedConfig)
InitConfig == \E c \in Configs : InitMainWith(c)

\* An exception nothing catches: traceback, non-zero exit
Crash ==
    /\ pc' = "CRASHED"
    /\ exitStatus' = "failure"

\* line 91/93: an iteration of `while True` starts, the first for loop begins
BeginTick ==
    /\ ticks < MaxTicks
    /\ ticks' = ticks + 1
    /\ forIdx' = 1
    /\ pc' = IF Len(cfg.DEVICES) = 0 THEN "clear" ELSE "collect_read"
    /\ got' = [dev \in Elems(cfg.DEVICES) |-> <<>>]
    /\ fed' = [dev \in Elems(cfg.DEVICES) |-> <<>>]

\* lines 86-87
MBanner ==
    /\ pc = "print_banner"
    /\ pc' = "startup_sleep"
    /\ UNCHANGED <<cfg, samplers, forIdx, mainCurrent, rendered, footer, stoppedMsg,
                   exitStatus, ticks, got, fed, lastRead, interrupted, sigIgnored>>
    /\ UNCHANGED <<samplerVars, pctVars, barVars>>

\* line 88, then into the try and the loop
MStartupSleep ==
    /\ pc = "startup_sleep"
    /\ BeginTick
    /\ UNCHANGED <<cfg, samplers, mainCurrent, rendered, footer, stoppedMsg,
                   exitStatus, lastRead, interrupted, sigIgnored>>
    /\ UNCHANGED <<samplerVars, pctVars, barVars>>

\* line 94: current = get_inflight(dev)
MCollectRead ==
    /\ pc = "collect_read"
    /\ \E file \in Files :
         LET dev == cfg.DEVICES[forIdx]
             r   == get_inflight(file) IN
         /\ lastRead' = [dev |-> dev, exc |-> r.exc, failed |-> ReadFailed(file)]
         /\ IF r.exc # "none"
            THEN Crash /\ UNCHANGED <<mainCurrent, got>>
            ELSE /\ mainCurrent' = r.value
                 /\ got' = [got EXCEPT ![dev] = Append(@, r.value)]
                 /\ pc' = "collect_add"
                 /\ UNCHANGED exitStatus
    /\ UNCHANGED <<cfg, samplers, forIdx, rendered, footer, stoppedMsg, ticks, fed,
                   interrupted, sigIgnored>>
    /\ UNCHANGED <<samplerVars, pctVars, barVars>>

\* line 95: samplers[dev].add(current)
collect_feed_first(smps, devs, k, value, j) ==
    [smps EXCEPT ![devs[1]] = add(@, value, j)]
collect_feed(smps, devs, k, value, j) ==
    [smps EXCEPT ![devs[k]] = add(@, value, j)]

MCollectAdd ==
    /\ pc = "collect_add"
    /\ LET dev == cfg.DEVICES[forIdx] IN
         /\ \E j \in Draws(samplers[dev]) :
               samplers' = collect_feed(samplers, cfg.DEVICES, forIdx, mainCurrent, j)
         /\ fed' = [fed EXCEPT ![dev] = Append(@, mainCurrent)]
    /\ IF forIdx < Len(cfg.DEVICES)
       THEN forIdx' = forIdx + 1 /\ pc' = "collect_read"
       ELSE forIdx' = forIdx /\ pc' = "clear"
    /\ UNCHANGED <<cfg, mainCurrent, rendered, footer, stoppedMsg, exitStatus, ticks,
                   got, lastRead, interrupted, sigIgnored>>
    /\ UNCHANGED <<samplerVars, pctVars, barVars>>

\* line 98: os.system('clear')
MClear ==
    /\ pc = "clear"
    /\ pc' = "header"
    /\ UNCHANGED <<cfg, samplers, forIdx, mainCurrent, rendered, footer, stoppedMsg,
                   exitStatus, ticks, got, fed, lastRead, interrupted, sigIgnored>>
    /\ UNCHANGED <<samplerVars, pctVars, barVars>>

\* lines 99-102, then the second for loop begins
MHeader ==
    /\ pc = "header"
    /\ rendered' = <<>>
    /\ footer' = NoFooter
    /\ forIdx' = 1
    /\ pc' = IF Len(cfg.DEVICES) = 0 THEN "footer" ELSE "row"
    /\ UNCHANGED <<cfg, samplers, mainCurrent, stoppedMsg, exitStatus, ticks, got, fed,
                   lastRead, interrupted, sigIgnored>>
    /\ UNCHANGED <<samplerVars, pctVars, barVars>>

\* lines 106-108 for one device, `value` being the display re-read of line 105
render_row(smps, dev, value) ==
    LET p90 == calc_percentile(Contents(get_samples(smps[dev]), smps[dev]), 90)
        bar == make_bar(value, p90, MAX_QUEUE)
    IN  [dev |-> dev, current |-> value, p90 |-> p90, bar |-> bar]

\* lines 105-108
MRow ==
    /\ pc = "row"
    /\ \E file \in Files :
         LET dev == cfg.DEVICES[forIdx]
             r   == get_inflight(file) IN
         /\ lastRead' = [dev |-> dev, exc |-> r.exc, failed |-> ReadFailed(file)]
         /\ IF r.exc # "none"
            THEN Crash /\ UNCHANGED <<mainCurrent, rendered, forIdx>>
            ELSE /\ mainCurrent' = r.value
                 /\ rendered' = Append(rendered, render_row(samplers, dev, r.value))
                 /\ IF forIdx < Len(cfg.DEVICES)
                    THEN forIdx' = forIdx + 1 /\ pc' = "row"
                    ELSE forIdx' = forIdx /\ pc' = "footer"
                 /\ UNCHANGED exitStatus
    /\ UNCHANGED <<cfg, samplers, footer, stoppedMsg, ticks, got, fed, interrupted,
                   sigIgnored>>
    /\ UNCHANGED <<samplerVars, pctVars, barVars>>

\* lines 110-114: DEVICES[0] raises IndexError when DEVICES is empty.  The
\* count is printed through format_count, which is str(count) below 1000.
MFooter ==
    /\ pc = "footer"
    /\ IF Len(cfg.DEVICES) = 0
       THEN Crash /\ UNCHANGED footer
       ELSE LET first == samplers[cfg.DEVICES[1]] IN
            /\ footer' = [printed |-> TRUE,
                          sample_count |-> get_count(first),
                          reservoir_size |-> Len(Contents(get_samples(first), first))]
            /\ pc' = "sleep"
            /\ UNCHANGED exitStatus
    /\ UNCHANGED <<cfg, samplers, forIdx, mainCurrent, rendered, stoppedMsg, ticks,
                   got, fed, lastRead, interrupted, sigIgnored>>
    /\ UNCHANGED <<samplerVars, pctVars, barVars>>

\* line 116: time.sleep raises ValueError for a negative length; else the
\* next iteration starts
MSleep ==
    /\ pc = "sleep"
    /\ IF cfg.SAMPLE_INTERVAL < 0
       THEN Crash /\ UNCHANGED <<ticks, forIdx, got, fed>>
       ELSE BeginTick /\ UNCHANGED exitStatus
    /\ UNCHANGED <<cfg, samplers, mainCurrent, rendered, footer, stoppedMsg, lastRead,
                   interrupted, sigIgnored>>
    /\ UNCHANGED <<samplerVars, pctVars, barVars>>

\* SIGINT raises KeyboardInterrupt in main(): inside the try of lines 90-119
\* the handler prints "Stopped." and main returns; at lines 86-88 nothing
\* catches it.
MInterrupt ==
    /\ pc \notin Ended
    /\ interrupted' = TRUE
    /\ IF pc \in InLoopBody
       THEN pc' = "STOPPED" /\ stoppedMsg' = TRUE /\ exitStatus' = "success"
       ELSE pc' = "KILLED" /\ stoppedMsg' = stoppedMsg /\ exitStatus' = "failure"
    /\ UNCHANGED <<cfg, samplers, forIdx, mainCurrent, rendered, footer, ticks, got,
                   fed, lastRead, sigIgnored>>
    /\ UNCHANGED <<samplerVars, pctVars, barVars>>

\* SIGINT while os.system('clear') waits for the command: system() has SIGINT
\* ignored in the calling process, so no KeyboardInterrupt is raised.
MInterruptDuringSystem ==
    /\ pc = "clear"
    /\ interrupted' = TRUE
    /\ sigIgnored' = TRUE
    /\ UNCHANGED <<cfg, samplers, pc, forIdx, mainCurrent, rendered, footer, stoppedMsg,
                   exitStatus, ticks, got, fed, lastRead>>
    /\ UNCHANGED <<samplerVars, pctVars, barVars>>

Next ==
    \/ MBanner
    \/ MStartupSleep
    \/ MCollectRead
    \/ MCollectAdd
    \/ MClear
    \/ MHeader
    \/ MRow
    \/ MFooter
    \/ MSleep
    \/ MInterrupt
    \/ MInterruptDuringSystem

Spec == Init /\ [][Next]_vars
SpecConfig == InitConfig /\ [][Next]_vars

RenderPcs == {"clear", "header", "row", "footer", "sleep"}

\* C5: a failed metric read never aborts the loop: get_inflight returns 0 for
\* it and main goes on with current = 0.
C5_FailedReadIsZero ==
    lastRead.failed =>
        /\ lastRead.exc = "none"
        /\ mainCurrent = 0
        /\ pc # "CRASHED"
        /\ exitStatus # "failure"

\* C6: once an interrupt has arrived, at whatever point of main(), the loop is
\* STOPPED, "Stopped." has been printed and the process ends with success.
C6_InterruptStopsCleanly ==
    interrupted =>
        /\ pc = "STOPPED"
        /\ stoppedMsg
        /\ exitStatus = "success"

\* C7: under an invalid configuration (no entity, capacity <= 0 or interval
\* <= 0) the loop is never entered: no tick starts, no add() is made, nothing
\* is rendered.
C7_InvalidConfigNeverRuns ==
    ~ValidConfig(cfg) =>
        /\ pc \notin InLoopBody
        /\ ticks = 0
        /\ \A dev \in DOMAIN samplers : get_count(samplers[dev]) = 0
        /\ rendered = <<>>
        /\ ~footer.printed

\* C10: in a tick every entity's sampler gets exactly one add(), of the value
\* read from that entity in that tick, before anything is rendered; at every
\* render all samplers have the same count, the number of ticks started, and
\* the count printed from the first entity's sampler is every entity's.
C10_OneAddPerEntityPerTick ==
    /\ \A dev \in DOMAIN samplers :
          /\ Len(got[dev]) <= 1
          /\ Len(fed[dev]) <= Len(got[dev])
          /\ fed[dev] = SubSeq(got[dev], 1, Len(fed[dev]))
          /\ get_count(samplers[dev]) =
                IF ticks = 0 THEN 0 ELSE (ticks - 1) + Len(fed[dev])
    /\ pc \in RenderPcs =>
          \A dev \in DOMAIN samplers :
              /\ Len(fed[dev]) = 1
              /\ fed[dev] = got[dev]
              /\ get_count(samplers[dev]) = ticks
    /\ pc = "sleep" =>
          /\ footer.printed
          /\ footer.sample_count = ticks
          /\ \A dev \in DOMAIN samplers : get_count(samplers[dev]) = footer.sample_count
          /\ Len(rendered) = Len(cfg.DEVICES)

C10_Witness ==
    /\ pc = "sleep"
    /\ ticks = 2
    /\ footer.sample_count = 2
    /\ fed["sdc"] = <<0>>
    /\ fed["sdd"] = <<2>>
    /\ samplers["sdd"].reservoir = <<2>>
    /\ lastRead.failed

====
